---- MODULE Spec2Model ----
(***************************************************************************)
(* Model of rtb/player.py: the MusicPlayer state machine, its advance      *)
(* tasks (_play), the completion callback (_playback_finished), the        *)
(* threads of the decode player and the asyncio loop that runs tasks,      *)
(* timers and thread-safe callbacks.                                       *)
(*                                                                         *)
(* Everything the loop runs without an await is one step.  _play() has one *)
(* await (playlist.get_next_entry()) and one place where it may have to    *)
(* wait (the lock), so it is two or three steps.  The decode player's      *)
(* thread and the stderr reader thread are steps of their own.             *)
(***************************************************************************)
EXTENDS Integers, Sequences, FiniteSets, TLC

\* ---- bounds of the model ----
MaxEntries == 2     \* entries ever added to the playlist
MaxTasks == 1       \* _play() tasks in flight beyond which play() is not called again
MaxVolume == 2      \* volumes 1..MaxVolume
MaxLines == 3       \* lines of a diagnostic stream
MaxLineLen == 3     \* pieces of one diagnostic line
MaxQueue == 2       \* entries of a serialized or supplied queue

\* bot.config.default_volume, the volume a player starts with
default_volume == 1

\* Every session plays an entry taken from the queue.
Sessions == 1..MaxEntries

\* ---- MusicPlayerState ----
STOPPED == "STOPPED"
PLAYING == "PLAYING"
PAUSED == "PAUSED"
WAITING == "WAITING"
DEAD == "DEAD"
MusicPlayerState == {STOPPED, PLAYING, PAUSED, WAITING, DEAD}

VARIABLES
    state,            \* self.state
    current_player,   \* self._current_player: 0 is None, else a session
    current_entry,    \* self._current_entry: 0 is None, else an entry
    stderr_future,    \* self._stderr_future: "none" is None, else the state of the
                      \* Future made for the latest session: "pending", "ok"
                      \* (set_result) or "err" (set_exception)
    entries,          \* self.playlist.entries
    play_lock,        \* self._play_lock.locked()
    tasks,            \* the _play() coroutines in flight: how many at each position
    timers,           \* pending loop.call_later(.., self.play) calls
    sess,             \* the decode players created so far
    nsess,            \* number of decode players created so far
    nadded,           \* number of entries added to the playlist so far
    advance,          \* history: the advance that is owed and not yet carried out
    volume,           \* self._volume
    buff,             \* buff.volume of each decode player's PatchedBuff (0: no buffer)
    ws,               \* position of the websocket_check() coroutine: "while" at the
                      \* loop test, "probe", "reconnect", "sleep3", "sleep1",
                      \* "sleep1_raising" (in finally with an exception under way),
                      \* "returned" or "raised"
    save_videos,      \* self.bot.config.save_videos
    popen,            \* filter_stderr: the lines popen.stderr yields before it closes
    nread,            \* filter_stderr: lines read so far
    last_ex,          \* filter_stderr: last_ex (<<>> is None, else <<the fatal line>>)
    future,           \* filter_stderr: the future it resolves: <<"none">> no reader,
                      \* <<"pending">>, <<"result">> or <<"exception", the line>>
    data,             \* check_stderr: its argument
    verdict,          \* check_stderr: how the call ended ("none": not called yet)
    json,             \* __json__(): <<"none">> or <<"json", current entry, entries>>
    restored          \* _deserialize(): <<"none">>, <<"AssertionError">> or
                      \* <<"player", the entries of its playlist>>

\* The player proper
playervars == <<state, current_player, current_entry, stderr_future, entries, play_lock,
                tasks, timers, sess, nsess, nadded, advance>>

\* What only the health check, the stderr reader, the classifier and the
\* serializer touch
sidevars == <<ws, save_videos, popen, nread, last_ex, future, data, verdict, json,
              restored>>

vars == <<playervars, volume, buff, sidevars>>

\* A decode player (the thread create_ffmpeg_player returns):
\*   thread  "none" not created, "run" started, "exited" run() has returned
\*   end     stop() was called or the stream ended
\*   resumed not paused
\*   after   the after= callback is still installed
\*   cbq     _playback_finished is queued on the loop for this player
\*   cbrun   how often _playback_finished ran for this player
NoSession == [entry |-> 0, thread |-> "none", end |-> FALSE, resumed |-> TRUE,
              after |-> FALSE, cbq |-> FALSE, cbrun |-> 0]

\* A _play() coroutine: "start" created by play() and not yet run, "lock"
\* waiting for _play_lock, "fetch" holding the lock and awaiting
\* get_next_entry(), which has taken entry res from the queue.
StartTask(cont) == [pc |-> "start", cont |-> cont, res |-> 0]
LockTask(cont) == [pc |-> "lock", cont |-> cont, res |-> 0]
FetchTask(cont, res) == [pc |-> "fetch", cont |-> cont, res |-> res]

TaskKinds ==
    {StartTask(c) : c \in BOOLEAN} \cup {LockTask(c) : c \in BOOLEAN}
    \cup {FetchTask(c, r) : c \in BOOLEAN, r \in 1..MaxEntries}

Fetching == {k \in TaskKinds : k.pc = "fetch"}

RECURSIVE Total(_, _)
Total(tk, ks) ==
    IF ks = {} THEN 0
    ELSE LET k == CHOOSE x \in ks : TRUE IN tk[k] + Total(tk, ks \ {k})

InitPlayer ==
    /\ state = STOPPED
    /\ current_player = 0
    /\ current_entry = 0
    /\ stderr_future = "none"
    /\ entries = <<>>
    /\ play_lock = FALSE
    /\ tasks = [k \in TaskKinds |-> 0]
    /\ timers = 0
    /\ sess = [s \in Sessions |-> NoSession]
    /\ nsess = 0
    /\ nadded = 0
    /\ advance = "none"

\* No volume set, no decode player and so no buffer yet
IdleVolume ==
    /\ volume = default_volume
    /\ buff = [s \in Sessions |-> 0]

\* __init__ creates the websocket_check() task; it has not run yet: it is
\* before its first test of "while not self.is_dead"
IdleWs == ws = "while"

IdleDelete == save_videos = FALSE

\* No stderr reader, classifier call or serialization under way
IdleFilter ==
    /\ popen = <<>>
    /\ nread = 0
    /\ last_ex = <<>>
    /\ future = <<"none">>

IdleClassify ==
    /\ data = <<>>
    /\ verdict = "none"

IdleJson ==
    /\ json = <<"none">>
    /\ restored = <<"none">>

Init ==
    /\ InitPlayer
    /\ IdleVolume
    /\ IdleWs
    /\ IdleDelete
    /\ IdleFilter
    /\ IdleClassify
    /\ IdleJson

\* ---- the player's fields as one value, so that a handler can call another;
\* emit collects the events the handler emits, raised is set when it raises ----
Player == [state |-> state, cp |-> current_player, ce |-> current_entry,
           sess |-> sess, emit |-> <<>>, raised |-> FALSE]

emit(p, name, entry) == [p EXCEPT !.emit = Append(@, <<name, entry>>)]

RECURSIVE resume(_), kill_current_player(_)

resume(p) ==
    IF p.state = PAUSED /\ p.cp # 0
    THEN emit([p EXCEPT !.sess[p.cp].resumed = TRUE, !.state = PLAYING], "resume", p.ce)
    ELSE IF p.state = PAUSED /\ p.cp = 0
    THEN kill_current_player([p EXCEPT !.state = PLAYING])
    ELSE [p EXCEPT !.raised = TRUE]

\* a teardown that forgets the player without stopping it
kill_current_player_nostop(p) ==
    IF p.cp # 0
    THEN LET q == IF p.state = PAUSED THEN resume(p) ELSE p
         IN [q EXCEPT !.cp = 0]
    ELSE p

kill_current_player(p) ==
    IF p.cp # 0
    THEN LET q == IF p.state = PAUSED THEN resume(p) ELSE p
         IN [q EXCEPT !.sess[q.cp].end = TRUE, !.cp = 0]
    ELSE p

\* a pause that tears the session down instead of suspending it
pause_teardown(p) ==
    IF p.state = PLAYING
    THEN emit(kill_current_player([p EXCEPT !.state = PAUSED]), "pause", p.ce)
    ELSE IF p.state = PAUSED
    THEN p
    ELSE [p EXCEPT !.raised = TRUE]
\* a pause that accepts every state but PAUSED
pause_lenient(p) ==
    IF p.state = PAUSED
    THEN p
    ELSE LET q == [p EXCEPT !.state = PAUSED]
             r == IF q.cp # 0 THEN [q EXCEPT !.sess[q.cp].resumed = FALSE] ELSE q
         IN emit(r, "pause", r.ce)

pause(p) ==
    IF p.state = PLAYING
    THEN LET q == [p EXCEPT !.state = PAUSED]
             r == IF q.cp # 0 THEN [q EXCEPT !.sess[q.cp].resumed = FALSE] ELSE q
         IN emit(r, "pause", r.ce)
    ELSE IF p.state = PAUSED
    THEN p
    ELSE [p EXCEPT !.raised = TRUE]

skip(p) == kill_current_player(p)

stop(p) == emit(kill_current_player([p EXCEPT !.state = STOPPED]), "stop", 0)

kill(p) == kill_current_player([p EXCEPT !.state = DEAD])

\* A decode player whose thread has exited, whose callback is not queued and
\* which is not the current player is referenced by nothing any more: only its
\* entry and how often its callback ran are kept.
Collected(ss, cp) ==
    [s \in Sessions |->
        IF ss[s].thread = "exited" /\ ~ss[s].cbq /\ s # cp
        THEN [ss[s] EXCEPT !.resumed = TRUE, !.after = FALSE]
        ELSE ss[s]]

Commit(p) ==
    /\ state' = p.state
    /\ current_player' = p.cp
    /\ current_entry' = p.ce
    /\ sess' = Collected(p.sess, p.cp)

\* ---- play(): loop.create_task(self._play(_continue)) ----
play(tk, cont) == [tk EXCEPT ![StartTask(cont)] = @ + 1]

Done(tk, k) == [tk EXCEPT ![k] = @ - 1]

\* ---- the public control calls, each run to completion on the loop ----
PlayCall ==
    /\ Total(tasks, TaskKinds) < MaxTasks
    /\ tasks' = play(tasks, FALSE)
    /\ UNCHANGED <<state, current_player, current_entry, stderr_future, entries,
                   play_lock, timers, sess, nsess, nadded, advance>>
    /\ UNCHANGED <<volume, buff, sidevars>>

PauseCall ==
    /\ Commit(pause(Player))
    /\ UNCHANGED <<stderr_future, entries, play_lock, tasks, timers, nsess, nadded,
                   advance>>
    /\ UNCHANGED <<volume, buff, sidevars>>

ResumeCall ==
    /\ Commit(resume(Player))
    /\ UNCHANGED <<stderr_future, entries, play_lock, tasks, timers, nsess, nadded,
                   advance>>
    /\ UNCHANGED <<volume, buff, sidevars>>

SkipCall ==
    /\ Commit(skip(Player))
    /\ UNCHANGED <<stderr_future, entries, play_lock, tasks, timers, nsess, nadded,
                   advance>>
    /\ UNCHANGED <<volume, buff, sidevars>>

StopCall ==
    /\ Commit(stop(Player))
    /\ advance' = "none"
    /\ UNCHANGED <<stderr_future, entries, play_lock, tasks, timers, nsess, nadded>>
    /\ UNCHANGED <<volume, buff, sidevars>>

\* kill(): playlist.clear() empties the queue
KillCall ==
    /\ Commit(kill(Player))
    /\ entries' = <<>>
    /\ advance' = "none"
    /\ UNCHANGED <<stderr_future, play_lock, tasks, timers, nsess, nadded>>
    /\ UNCHANGED <<volume, buff, sidevars>>
\* an entry-added notification that starts nothing
EntryAdded_nostart ==
    /\ nadded < MaxEntries
    /\ nadded' = nadded + 1
    /\ entries' = Append(entries, nadded + 1)
    /\ UNCHANGED <<state, current_player, current_entry, stderr_future, play_lock,
                   tasks, timers, sess, nsess, advance>>
    /\ UNCHANGED <<volume, buff, sidevars>>

\* The playlist appends an entry and notifies on_entry_added
EntryAdded ==
    /\ nadded < MaxEntries
    /\ nadded' = nadded + 1
    /\ entries' = Append(entries, nadded + 1)
    /\ timers' = IF state = STOPPED THEN timers + 1 ELSE timers
    /\ UNCHANGED <<state, current_player, current_entry, stderr_future, play_lock,
                   tasks, sess, nsess, advance>>
    /\ UNCHANGED <<volume, buff, sidevars>>

\* A call_later timer fires and calls self.play()
TimerFire ==
    /\ timers > 0
    /\ timers' = timers - 1
    /\ tasks' = play(tasks, FALSE)
    /\ UNCHANGED <<state, current_player, current_entry, stderr_future, entries,
                   play_lock, sess, nsess, nadded, advance>>
    /\ UNCHANGED <<volume, buff, sidevars>>

\* ---- _play(): from the lock to the await of playlist.get_next_entry() ----
\* get_next_entry() takes the front entry of the queue and suspends until the
\* entry is ready; on an empty queue there is nothing to wait for and it
\* returns None (0) at once.
get_next_entry(q) ==
    IF q = <<>> THEN [res |-> 0, rest |-> q] ELSE [res |-> Head(q), rest |-> Tail(q)]

\* an acquire that does not wait for the holder
LockAlwaysFree(l) == TRUE

LockFree(l) == l = FALSE

\* The body under "with await self._play_lock", up to the first suspension
Locked(k) ==
    LET g == get_next_entry(entries)
    IN IF ~(state = STOPPED \/ k.cont)
       THEN /\ play_lock' = FALSE
            /\ tasks' = Done(tasks, k)
            /\ UNCHANGED <<state, current_player, current_entry, sess, entries, advance>>
       ELSE IF g.res = 0
       THEN /\ Commit(stop(Player))
            /\ play_lock' = FALSE
            /\ tasks' = Done(tasks, k)
            /\ advance' = "none"
            /\ UNCHANGED entries
       ELSE /\ play_lock' = TRUE
            /\ entries' = g.rest
            /\ tasks' = [Done(tasks, k) EXCEPT ![FetchTask(k.cont, g.res)] = @ + 1]
            /\ UNCHANGED <<state, current_player, current_entry, sess, advance>>

PlayStart(k) ==
    /\ k.pc = "start"
    /\ tasks[k] > 0
    /\ IF state = PAUSED
       THEN /\ Commit(resume(Player))
            /\ tasks' = Done(tasks, k)
            /\ UNCHANGED <<entries, play_lock, advance>>
       ELSE IF state = DEAD
       THEN /\ tasks' = Done(tasks, k)
            /\ UNCHANGED <<state, current_player, current_entry, sess, entries,
                           play_lock, advance>>
       ELSE IF LockFree(play_lock)
       THEN Locked(k)
       ELSE /\ tasks' = [Done(tasks, k) EXCEPT ![LockTask(k.cont)] = @ + 1]
            /\ UNCHANGED <<state, current_player, current_entry, sess, entries,
                           play_lock, advance>>
    /\ UNCHANGED <<stderr_future, timers, nsess, nadded>>
    /\ UNCHANGED <<volume, buff, sidevars>>

PlayAcquire(k) ==
    /\ k.pc = "lock"
    /\ tasks[k] > 0
    /\ LockFree(play_lock)
    /\ Locked(k)
    /\ UNCHANGED <<stderr_future, timers, nsess, nadded>>
    /\ UNCHANGED <<volume, buff, sidevars>>

\* ---- _play(): get_next_entry() raised ----
PlayFetchFailed(k) ==
    /\ k.pc = "fetch"
    /\ tasks[k] > 0
    /\ timers' = timers + 1
    /\ play_lock' = FALSE
    /\ tasks' = Done(tasks, k)
    /\ advance' = IF state = DEAD THEN "none"
                   ELSE IF k.cont THEN "contFailed" ELSE "stopFailed"
    /\ UNCHANGED <<state, current_player, current_entry, stderr_future, entries, sess,
                   nsess, nadded>>
    /\ UNCHANGED <<volume, buff, sidevars>>

\* ---- _play(): get_next_entry() returned an entry ----
NewSession(e) == [entry |-> e, thread |-> "run", end |-> FALSE, resumed |-> TRUE,
                  after |-> TRUE, cbq |-> FALSE, cbrun |-> 0]

start_player(p, n, e) ==
    LET q == kill_current_player(p)
    IN emit([q EXCEPT !.sess[n] = NewSession(e), !.cp = n, !.state = PLAYING, !.ce = e],
            "play", e)

PlayEntry(k) ==
    /\ k.pc = "fetch"
    /\ tasks[k] > 0
    /\ Commit(start_player(Player, nsess + 1, k.res))
    /\ nsess' = nsess + 1
    /\ stderr_future' = "pending"
    /\ play_lock' = FALSE
    /\ tasks' = Done(tasks, k)
    /\ advance' = "none"
    /\ UNCHANGED <<entries, timers, nadded>>
    /\ UNCHANGED <<volume, sidevars>>
    /\ buff' = [buff EXCEPT ![nsess + 1] = volume]

\* ---- the decode player's thread: run() returns (the stream ended, the decoder
\* failed, or stop() was called) and calls after, which queues
\* _playback_finished on the loop with call_soon_threadsafe ----
ThreadExit(s) ==
    /\ sess[s].thread = "run"
    /\ sess' = Collected([sess EXCEPT ![s].thread = "exited", ![s].end = TRUE,
                                      ![s].cbq = sess[s].after], current_player)
    /\ UNCHANGED <<state, current_player, current_entry, stderr_future, entries,
                   play_lock, tasks, timers, nsess, nadded, advance>>
    /\ UNCHANGED <<volume, buff, sidevars>>

\* ---- the stderr reader thread of the latest session resolves its future when
\* the stream closes (the futures of earlier sessions are no longer referenced) ----
StderrResolve ==
    /\ stderr_future = "pending"
    /\ \E r \in {"ok", "err"} : stderr_future' = r
    /\ UNCHANGED <<state, current_player, current_entry, entries, play_lock, tasks,
                   timers, sess, nsess, nadded, advance>>
    /\ UNCHANGED <<volume, buff, sidevars>>

\* ---- _playback_finished(), run on the loop ----
playback_finished(p, fut) ==
    LET entry == p.ce
        q == IF p.cp # 0
             THEN kill_current_player([p EXCEPT !.sess[p.cp].after = FALSE])
             ELSE p
        r == [q EXCEPT !.ce = 0]
        e == IF fut = "err" THEN emit(r, "error", entry) ELSE r
    IN emit(e, "finished-playing", entry)

Continues(p) == p.state # STOPPED /\ p.state # DEAD

CallbackRun(s) ==
    /\ sess[s].cbq
    /\ LET p == playback_finished(Player, stderr_future)
       IN /\ Commit([p EXCEPT !.sess[s].cbq = FALSE, !.sess[s].cbrun = @ + 1])
          /\ tasks' = IF Continues(p) THEN play(tasks, TRUE) ELSE tasks
          /\ advance' = IF p.state = PLAYING THEN "cont" ELSE advance
    /\ UNCHANGED <<stderr_future, entries, play_lock, timers, nsess, nadded>>
    /\ UNCHANGED <<volume, buff, sidevars>>

PlayStep ==
    \E k \in TaskKinds :
        PlayStart(k) \/ PlayAcquire(k) \/ PlayFetchFailed(k) \/ PlayEntry(k)

Next ==
    \/ PlayCall
    \/ PauseCall
    \/ ResumeCall
    \/ SkipCall
    \/ StopCall
    \/ KillCall
    \/ EntryAdded
    \/ TimerFire
    \/ \E k \in TaskKinds : PlayStart(k)
    \/ \E k \in TaskKinds : PlayAcquire(k)
    \/ \E k \in TaskKinds : PlayFetchFailed(k)
    \/ \E k \in TaskKinds : PlayEntry(k)
    \/ \E s \in Sessions : ThreadExit(s)
    \/ StderrResolve
    \/ \E s \in Sessions : CallbackRun(s)

Spec == Init /\ [][Next]_vars

\* The behaviours in which kill() is never called
NextNoKill ==
    \/ PlayCall
    \/ PauseCall
    \/ ResumeCall
    \/ SkipCall
    \/ StopCall
    \/ EntryAdded
    \/ TimerFire
    \/ \E k \in TaskKinds : PlayStart(k)
    \/ \E k \in TaskKinds : PlayAcquire(k)
    \/ \E k \in TaskKinds : PlayFetchFailed(k)
    \/ \E k \in TaskKinds : PlayEntry(k)
    \/ \E s \in Sessions : ThreadExit(s)
    \/ StderrResolve
    \/ \E s \in Sessions : CallbackRun(s)

SpecNoKill == Init /\ [][NextNoKill]_vars
\* ---- check_stderr(data) ----
\* A line is a sequence of pieces; "msg in data" holds when msg is one of them.
\* Two of the seven warnings are kept; BadByte is a byte that is not UTF-8.
BadByte == "0xff"

warnings == {"Header missing", "Last message repeated"}

errors == {"Invalid data found when processing input"}

Pieces == warnings \cup errors \cup {"frame=", BadByte}

Lines == UNION {[1..n -> Pieces] : n \in 1..MaxLineLen}

\* data.decode('utf8') raises on a byte that is not UTF-8
Decodable(d) == \A i \in DOMAIN d : d[i] # BadByte

Contains(d, msgs) == \E i \in DOMAIN d : d[i] \in msgs

\* a classifier that looks for the fatal messages first
check_stderr_errors_first(d) ==
    IF ~Decodable(d) THEN "True"
    ELSE IF Contains(d, errors) THEN "FFmpegError"
    ELSE IF Contains(d, warnings) THEN "FFmpegWarning"
    ELSE "True"

\* "True": returns True; "FFmpegWarning", "FFmpegError": raises it
check_stderr(d) ==
    IF ~Decodable(d) THEN "True"
    ELSE IF Contains(d, warnings) THEN "FFmpegWarning"
    ELSE IF Contains(d, errors) THEN "FFmpegError"
    ELSE "True"

CheckStderr ==
    /\ verdict = "none"
    /\ verdict' = check_stderr(data)
    /\ UNCHANGED <<playervars, volume, buff, ws, save_videos, popen, nread, last_ex,
                   future, data, json, restored>>

InitClassify ==
    /\ InitPlayer
    /\ IdleVolume
    /\ IdleWs
    /\ IdleDelete
    /\ IdleFilter
    /\ IdleJson
    /\ data \in Lines
    /\ verdict = "none"

SpecClassify == InitClassify /\ [][CheckStderr]_vars

\* ---- filter_stderr(popen, future) ----
\* The lines a diagnostic stream can have: a warning, two different fatal
\* lines, a line that is both, a pass-through line and an undecodable one.
SampleLines ==
    { <<"Header missing">>,
      <<"Invalid data found when processing input">>,
      <<"frame=", "Invalid data found when processing input">>,
      <<"Last message repeated", "Invalid data found when processing input">>,
      <<"frame=">>,
      <<BadByte>> }

Streams == UNION {[1..n -> SampleLines] : n \in 0..MaxLines}

\* a reader that keeps the first fatal line
filter_line_first(last, line) ==
    IF check_stderr(line) = "FFmpegError" /\ last = <<>> THEN <<line>> ELSE last

\* One turn of the loop on a line that is not empty: last_ex afterwards
filter_line(last, line) ==
    IF check_stderr(line) = "FFmpegError" THEN <<line>> ELSE last

\* readline() returned a line
FilterRead ==
    /\ future = <<"pending">>
    /\ nread < Len(popen)
    /\ nread' = nread + 1
    /\ last_ex' = filter_line(last_ex, popen[nread + 1])
    /\ UNCHANGED <<playervars, volume, buff, ws, save_videos, popen, future, data,
                   verdict, json, restored>>

\* readline() returned nothing: the stream is closed
FilterClose ==
    /\ future = <<"pending">>
    /\ nread = Len(popen)
    /\ future' = IF last_ex # <<>> THEN <<"exception", last_ex[1]>> ELSE <<"result">>
    /\ UNCHANGED <<playervars, volume, buff, ws, save_videos, popen, nread, last_ex,
                   data, verdict, json, restored>>

InitFilter ==
    /\ InitPlayer
    /\ IdleVolume
    /\ IdleWs
    /\ IdleDelete
    /\ IdleClassify
    /\ IdleJson
    /\ popen \in Streams
    /\ nread = 0
    /\ last_ex = <<>>
    /\ future = <<"pending">>

NextFilter ==
    \/ FilterRead
    \/ FilterClose

SpecFilter == InitFilter /\ [][NextFilter]_vars
\* The behaviours with no control call but play(), in which no fetch fails
NextAuto ==
    \/ PlayCall
    \/ EntryAdded
    \/ TimerFire
    \/ \E k \in TaskKinds : PlayStart(k)
    \/ \E k \in TaskKinds : PlayAcquire(k)
    \/ \E k \in TaskKinds : PlayEntry(k)
    \/ \E s \in Sessions : ThreadExit(s)
    \/ StderrResolve
    \/ \E s \in Sessions : CallbackRun(s)

SpecAuto == Init /\ [][NextAuto]_vars
\* ---- the volume property ----
Volumes == 1..MaxVolume

\* a setter that only stores the value
volume_setter_stored_only(b, cp, value) == b

\* The setter's effect on the buffers: the current player's buffer, if there
\* is a current player, takes the value
volume_setter(b, cp, value) ==
    IF cp # 0 THEN [b EXCEPT ![cp] = value] ELSE b

SetVolume ==
    \E value \in Volumes :
        /\ volume' = value
        /\ buff' = volume_setter(buff, current_player, value)
        /\ UNCHANGED <<playervars, sidevars>>

\* The behaviours in which entries are played, skipped and stopped while the
\* volume is set
NextVolume ==
    \/ SetVolume
    \/ SkipCall
    \/ StopCall
    \/ EntryAdded
    \/ TimerFire
    \/ \E k \in TaskKinds : PlayStart(k)
    \/ \E k \in TaskKinds : PlayAcquire(k)
    \/ \E k \in TaskKinds : PlayEntry(k)
    \/ \E s \in Sessions : ThreadExit(s)
    \/ \E s \in Sessions : CallbackRun(s)

SpecVolume == Init /\ [][NextVolume]_vars
\* ---- websocket_check() ----
\* The loop test
WsWhile ==
    /\ ws = "while"
    /\ ws' = IF state = DEAD THEN "returned" ELSE "probe"
    /\ UNCHANGED <<playervars, volume, buff, save_videos, popen, nread, last_ex, future,
                   data, verdict, json, restored>>

\* The lock and ws.ensure_open(): it returns, raises InvalidState or raises
\* another Exception, which is logged
WsProbe ==
    /\ ws = "probe"
    /\ \E outcome \in {"ok", "InvalidState", "Exception"} :
           ws' = IF outcome = "InvalidState" THEN "reconnect" ELSE "sleep1"
    /\ UNCHANGED <<playervars, volume, buff, save_videos, popen, nread, last_ex, future,
                   data, verdict, json, restored>>

\* bot.reconnect_voice_client(), awaited inside the except clause: when it
\* raises, the finally clause runs and the exception leaves the coroutine
WsReconnect ==
    /\ ws = "reconnect"
    /\ \E outcome \in {"ok", "Exception"} :
           ws' = IF outcome = "ok" THEN "sleep3" ELSE "sleep1_raising"
    /\ UNCHANGED <<playervars, volume, buff, save_videos, popen, nread, last_ex, future,
                   data, verdict, json, restored>>

\* asyncio.sleep(3) in the except clause, asyncio.sleep(1) in the finally clause
WsSleep ==
    /\ ws \in {"sleep3", "sleep1", "sleep1_raising"}
    /\ ws' = IF ws = "sleep3" THEN "sleep1"
             ELSE IF ws = "sleep1" THEN "while"
             ELSE "raised"
    /\ UNCHANGED <<playervars, volume, buff, save_videos, popen, nread, last_ex, future,
                   data, verdict, json, restored>>

\* The health check beside a player that is started by added entries and killed
NextWs ==
    \/ WsWhile
    \/ WsProbe
    \/ WsReconnect
    \/ WsSleep
    \/ KillCall
    \/ EntryAdded
    \/ TimerFire
    \/ \E k \in TaskKinds : PlayStart(k)
    \/ \E k \in TaskKinds : PlayAcquire(k)
    \/ \E k \in TaskKinds : PlayEntry(k)
    \/ \E s \in Sessions : ThreadExit(s)
    \/ \E s \in Sessions : CallbackRun(s)

SpecWs == Init /\ [][NextWs]_vars
\* ---- __json__() and _deserialize() ----
\* Queues of up to MaxQueue entries, of MaxQueue + 1 entries to choose from
Queues == UNION {[1..n -> 1..(MaxQueue + 1)] : n \in 0..MaxQueue}

\* The playlist argument of _deserialize: None or a playlist with its entries
Playlists == {<<"None">>} \cup {<<"Playlist", q>> : q \in Queues}

\* 'current_entry': {'entry': ...}, 'entries': self.playlist (progress is
\* not read back)
__json__(entry, playlist) == <<"json", entry, playlist>>

\* bot and voice_client: whether the argument is given
_deserialize(d, bot, voice_client, playlist) ==
    IF ~bot \/ ~voice_client \/ playlist = <<"None">>
    THEN <<"AssertionError">>
    ELSE LET data_pl == d[3]
             q == IF data_pl # <<>> THEN data_pl ELSE playlist[2]
         IN <<"player", IF d[2] # 0 THEN <<d[2]>> \o q ELSE q>>

Serialize ==
    /\ json = <<"none">>
    /\ json' = __json__(current_entry, entries)
    /\ UNCHANGED <<playervars, volume, buff, ws, save_videos, popen, nread, last_ex,
                   future, data, verdict, restored>>

Deserialize ==
    /\ json[1] = "json"
    /\ restored = <<"none">>
    /\ \E bot, voice_client \in BOOLEAN, playlist \in Playlists :
           restored' = _deserialize(json, bot, voice_client, playlist)
    /\ UNCHANGED <<playervars, volume, buff, ws, save_videos, popen, nread, last_ex,
                   future, data, verdict, json>>

\* A stopped player with a current entry (or none) left and a queue
InitJson ==
    /\ state = STOPPED
    /\ current_player = 0
    /\ current_entry \in 0..(MaxQueue + 1)
    /\ stderr_future = "none"
    /\ entries \in Queues
    /\ play_lock = FALSE
    /\ tasks = [k \in TaskKinds |-> 0]
    /\ timers = 0
    /\ sess = [s \in Sessions |-> NoSession]
    /\ nsess = 0
    /\ nadded = 0
    /\ advance = "none"
    /\ IdleVolume
    /\ IdleWs
    /\ IdleDelete
    /\ IdleFilter
    /\ IdleClassify
    /\ IdleJson

NextJson ==
    \/ Serialize
    \/ Deserialize

SpecJson == InitJson /\ [][NextJson]_vars
\* ---- _playback_finished(): the request to delete the entry's file ----
\* entry.filename: the first two entries are the same file, queued twice
filename(e) == (e + 1) \div 2

\* The entry whose file _playback_finished asks _delete_file to delete (0:
\* none), for the player p as the callback finds it and the queue q
delete_request(p, q, sv) ==
    IF ~sv /\ p.ce # 0 /\ ~\E i \in DOMAIN q : filename(q[i]) = filename(p.ce)
    THEN p.ce
    ELSE 0

InitDelete ==
    /\ InitPlayer
    /\ IdleVolume
    /\ IdleWs
    /\ IdleFilter
    /\ IdleClassify
    /\ IdleJson
    /\ save_videos \in BOOLEAN

\* The player without kill(), with save_videos on or off
SpecDelete == InitDelete /\ [][NextNoKill]_vars

TypeOK ==
    /\ state \in MusicPlayerState
    /\ current_player \in 0..nsess
    /\ current_entry \in 0..nadded
    /\ stderr_future \in {"none", "pending", "ok", "err"}
    /\ (stderr_future = "none") = (nsess = 0)
    /\ play_lock \in BOOLEAN
    /\ timers \in 0..(MaxEntries + MaxEntries)
    /\ nsess \in 0..nadded
    /\ nadded \in 0..MaxEntries
    /\ \A s \in Sessions : (sess[s].thread = "none") = (s > nsess)

\* ---- what the properties speak about ----
\* A live session: started by _play(), not stopped and not exited.
Live(s) == sess[s].thread = "run" /\ ~sess[s].end

LiveSessions == {s \in Sessions : Live(s)}

\* Nothing is left that the loop or a thread would still do on its own: no
\* _play() task, no timer, no running decode thread, no queued callback.
Quiescent ==
    /\ Total(tasks, TaskKinds) = 0
    /\ timers = 0
    /\ \A s \in Sessions : sess[s].thread # "run" /\ ~sess[s].cbq

\* C1: whenever the state is PLAYING the player holds a session
\* (_current_player is set).
C1_PlayingHasSession == state = PLAYING => current_player # 0

\* C2: at most one session that _play() started is neither stopped nor exited.
C2_AtMostOneLiveSession == Cardinality(LiveSessions) <= 1

\* C2 witness: a second session is live while the thread of an earlier,
\* stopped session is still running.
C2_Witness ==
    \E s1, s2 \in Sessions :
        /\ s1 # s2
        /\ Live(s2)
        /\ sess[s1].thread = "run"
        /\ sess[s1].end

\* C3: at most one _play() execution is inside the section that takes the next
\* entry and starts its player, the await of get_next_entry() included; and
\* while one is inside, the lock is held.
C3_OneAdvanceAtATime ==
    /\ Total(tasks, Fetching) <= 1
    /\ Total(tasks, Fetching) = 1 => play_lock

\* C3 witness: one _play() is suspended in get_next_entry() while another one
\* waits for the lock.
C3_Witness ==
    /\ Total(tasks, Fetching) = 1
    /\ \E c \in BOOLEAN : tasks[LockTask(c)] > 0

\* C4: once the state is DEAD it stays DEAD.
C4_DeadIsTerminal == [][state = DEAD => state' = DEAD]_vars

\* C5: a _play() execution that continues while the state is DEAD creates no
\* session and does not change the state or the current player.
C5_LateAdvanceIsNoop ==
    [][(state = DEAD /\ PlayStep) =>
           (state' = DEAD /\ nsess' = nsess /\ current_player' = current_player)]_vars

\* C6: _playback_finished runs exactly once for every session: a session whose
\* thread has exited has its callback queued or run, no callback runs twice,
\* and a callback is queued or run only after the session was torn down.
C6_CallbackExactlyOnce ==
    \A s \in Sessions :
        /\ sess[s].thread = "exited" => (sess[s].cbq \/ sess[s].cbrun = 1)
        /\ sess[s].cbrun <= 1
        /\ (sess[s].cbq \/ sess[s].cbrun > 0) => (sess[s].thread = "exited" /\ sess[s].end)

\* C7: an advance owed because a session ended while PLAYING, whose fetch did
\* not fail, has been carried out (a session started, or STOPPED on an empty
\* queue) by the time nothing is left to run.
C7_CompletionAdvances == Quiescent => advance # "cont"

\* C8: an advance whose fetch failed is retried: by the time nothing is left
\* to run, the retry has started a session or stopped on an empty queue, for
\* an advance from STOPPED and for a continuation alike.
C8_RetryAdvances == Quiescent => advance \notin {"contFailed", "stopFailed"}

\* C9: resume() (or play() delegating to it) in state PAUSED without a session
\* triggers a fresh advance: it does not leave the player PLAYING without a
\* session and with nothing left to run.
C9_ResumeWithoutSessionAdvances ==
    [][(state = PAUSED /\ current_player = 0 /\ state' = PLAYING) =>
           ~(Quiescent' /\ current_player' = 0)]_vars

\* C10: from PLAYING with a live session S, pause() then resume() ends PLAYING
\* with S still the current session, no session stopped or created, the entry
\* unchanged, and exactly 'pause' then 'resume' emitted.
C10_PauseResumeRoundTrip ==
    (state = PLAYING /\ current_player # 0 /\ Live(current_player)) =>
        LET a == pause(Player)
            b == resume(a)
        IN /\ a.state = PAUSED
           /\ a.cp = current_player
           /\ a.sess = [sess EXCEPT ![current_player].resumed = FALSE]
           /\ b.state = PLAYING
           /\ b.cp = current_player
           /\ b.ce = current_entry
           /\ b.sess = sess
           /\ ~b.raised
           /\ b.emit = <<<<"pause", current_entry>>, <<"resume", current_entry>>>>

\* C10 witness: pause() has suspended a live session, which resume() can resume.
C10_Witness ==
    /\ state = PAUSED
    /\ current_player # 0
    /\ Live(current_player)
    /\ ~sess[current_player].resumed

\* C11: pause() in a state other than PLAYING and PAUSED raises and changes
\* nothing: state, current player, current entry and the decode players are as
\* before and no event is emitted; pause() in PAUSED does not raise, changes
\* nothing and emits nothing.
C11_PauseRejected ==
    LET a == pause(Player)
    IN /\ state \notin {PLAYING, PAUSED} =>
              /\ a.raised
              /\ a.state = state
              /\ a.cp = current_player
              /\ a.ce = current_entry
              /\ a.sess = sess
              /\ a.emit = <<>>
       /\ state = PAUSED =>
              /\ ~a.raised
              /\ a.state = PAUSED
              /\ a.cp = current_player
              /\ a.ce = current_entry
              /\ a.sess = sess
              /\ a.emit = <<>>

\* C11 witness: pause() is rejected in a STOPPED state that still has a
\* current entry, which the rejected call must leave alone.
C11_Witness ==
    /\ state = STOPPED
    /\ current_entry # 0
    /\ pause(Player).raised

\* C12: the completion of a session whose diagnostic stream had a fatal line
\* emits exactly one 'error' event, with that session's entry, and the
\* completion of a session without one emits none, whenever the reader thread
\* resolves: when the callback of the latest session runs with the future
\* failed it emits one 'error' for the session's entry, with the future
\* succeeded it emits none, and the reader never resolves the future as failed
\* after the session's callback has run (which then emitted no 'error').
C12_ErrorPerFatalSession ==
    [][/\ \A s \in Sessions :
            (CallbackRun(s) /\ s = nsess) =>
                LET ev == playback_finished(Player, stderr_future).emit
                    errs == {i \in DOMAIN ev : ev[i][1] = "error"}
                IN /\ stderr_future = "err" =>
                          /\ Cardinality(errs) = 1
                          /\ \A i \in errs : ev[i][2] = sess[s].entry
                   /\ stderr_future = "ok" => errs = {}
       /\ (stderr_future = "pending" /\ stderr_future' = "err") =>
              sess[nsess].cbrun = 0]_vars

\* C13: filter_stderr resolves its future only after the stream is closed
\* (every line read), as succeeded when no line was fatal and as failed with
\* the last fatal line when one was, whatever lines follow it.
C13_ResolvesAfterDrain ==
    LET fatal == {i \in 1..Len(popen) : check_stderr(popen[i]) = "FFmpegError"}
    IN /\ future[1] \in {"result", "exception"} => nread = Len(popen)
       /\ future[1] = "result" => fatal = {}
       /\ future[1] = "exception" =>
              /\ fatal # {}
              /\ \E i \in fatal : /\ \A j \in fatal : j <= i
                                  /\ future[2] = popen[i]

\* C13 witness: the reader failed a stream that has two different fatal lines
\* and ends with a line that is not fatal.
C13_Witness ==
    /\ future[1] = "exception"
    /\ \E i, j \in 1..Len(popen) :
           /\ i < j
           /\ j < Len(popen)
           /\ check_stderr(popen[i]) = "FFmpegError"
           /\ check_stderr(popen[j]) = "FFmpegError"
           /\ popen[i] # popen[j]
           /\ check_stderr(popen[Len(popen)]) # "FFmpegError"

\* C18: check_stderr classifies every line in one of three ways: a decodable
\* line with a benign message is a warning, also when it has a fatal message
\* too; a decodable line with a fatal message and no benign one is an error;
\* every other line, an undecodable one included, passes through.
C18_ThreeWayClassification ==
    verdict # "none" =>
        LET undecodable == \E i \in DOMAIN data : data[i] = BadByte
            benign == \E i \in DOMAIN data : data[i] \in warnings
            fatal == \E i \in DOMAIN data : data[i] \in errors
        IN /\ verdict \in {"True", "FFmpegWarning", "FFmpegError"}
           /\ (~undecodable /\ benign) => verdict = "FFmpegWarning"
           /\ (~undecodable /\ ~benign /\ fatal) => verdict = "FFmpegError"
           /\ (undecodable \/ (~benign /\ ~fatal)) => verdict = "True"

\* C18 witness: a line with a benign and a fatal message was classified.
C18_Witness ==
    /\ verdict = "FFmpegWarning"
    /\ \E i \in DOMAIN data : data[i] \in errors

\* C14: with no control call but play() and no failing fetch: a _play() that
\* finds the queue empty in STOPPED leaves the player STOPPED without a
\* session; every completion callback emits 'finished-playing' for its
\* session's entry; and when nothing is left to run, every entry that was
\* added has been played by a session of its own, whose callback has run, and
\* the player is STOPPED with an empty queue.
C14_AutoStart ==
    /\ [](Quiescent =>
            /\ state = STOPPED
            /\ current_player = 0
            /\ entries = <<>>
            /\ \A e \in 1..nadded :
                   \E s \in Sessions : sess[s].entry = e /\ sess[s].cbrun = 1)
    /\ [][/\ (/\ state = STOPPED
              /\ entries = <<>>
              /\ \E k \in TaskKinds : PlayStart(k) \/ PlayAcquire(k)) =>
                 (state' = STOPPED /\ current_player' = 0 /\ nsess' = nsess)
          /\ \A s \in Sessions :
                 CallbackRun(s) =>
                     LET ev == playback_finished(Player, stderr_future).emit
                     IN ev[Len(ev)] = <<"finished-playing", sess[s].entry>>]_vars

\* C14 witness: two entries were added, both were played and their callbacks
\* ran, and the player has come to rest.
C14_Witness ==
    /\ Quiescent
    /\ nadded = 2
    /\ state = STOPPED
    /\ \A e \in 1..2 : \E s \in Sessions : sess[s].entry = e /\ sess[s].cbrun = 1

\* C15: whenever there is a current player, the volume of its buffer is the
\* stored volume; and setting the volume changes nothing but the stored
\* volume and, if there is a current player, its buffer.
C15_BufferFollowsVolume ==
    /\ [](current_player # 0 => buff[current_player] = volume)
    /\ [][volume' # volume =>
              /\ UNCHANGED playervars
              /\ \A s \in Sessions : s # current_player => buff'[s] = buff[s]]_vars

\* C15 witness: the volume has been set to another value than the default
\* and the current player's buffer has it, while the buffer of an earlier
\* player still has the volume of its time.
C15_Witness ==
    /\ current_player = 2
    /\ volume # default_volume
    /\ buff[2] = volume
    /\ buff[1] = default_volume

\* C16: websocket_check stops only when the player is DEAD: whenever the
\* coroutine ends, by returning or by an exception, the state is DEAD; while
\* the state is not DEAD every iteration, whatever the probe and the reconnect
\* did, leads back to the loop test.
C16_StopsOnlyWhenDead ==
    [][(ws' # ws /\ ws' \in {"returned", "raised"}) => state = DEAD]_vars

\* C17: the serialized player holds the current entry and the queue, and a
\* player that _deserialize constructs from it has as its queue the current
\* entry, if there was one, followed by the serialized queue in its order.
C17_RoundTrip ==
    /\ json[1] = "json" => (json[2] = current_entry /\ json[3] = entries)
    /\ restored[1] = "player" =>
           restored[2] = (IF current_entry # 0 THEN <<current_entry>> ELSE <<>>) \o entries

\* C19: a completion callback acts only on its own session: when the callback
\* queued by the thread of session s runs while a newer session is the
\* current player, it leaves the current player and the current entry as they
\* are, does not stop the current player, and the 'finished-playing' event
\* it emits carries the entry of s.
C19_CallbackOwnSession ==
    [][\A s \in Sessions :
           (CallbackRun(s) /\ current_player # 0 /\ current_player # s) =>
               LET ev == playback_finished(Player, stderr_future).emit
               IN /\ current_player' = current_player
                  /\ current_entry' = current_entry
                  /\ sess'[current_player].end = sess[current_player].end
                  /\ ev[Len(ev)] = <<"finished-playing", sess[s].entry>>]_vars

\* C20: with save_videos off, when a completion callback requests the
\* deletion of a file, it is the file of the entry of the session whose
\* callback it is, no entry in the queue has that filename, and no live
\* session plays it; with save_videos on nothing is requested.
C20_DeleteOnlyFinishedUnreferenced ==
    [][\A s \in Sessions :
           CallbackRun(s) =>
               LET d == delete_request(Player, entries, save_videos)
               IN d # 0 =>
                      /\ ~save_videos
                      /\ d = sess[s].entry
                      /\ \A i \in DOMAIN entries : filename(entries[i]) # filename(d)
                      /\ \A t \in Sessions :
                             (sess'[t].thread = "run" /\ ~sess'[t].end) =>
                                 filename(sess'[t].entry) # filename(d)]_vars
====
